---- MODULE Spec2Model ----
(***************************************************************************)
(* A model of jailer-service.go (aws-fail2ban): the ServiceJailer that     *)
(* records infractions per address in redis lists, bans an address at the  *)
(* ipset once MaxRetry infractions are recorded, and whose background      *)
(* goroutine (manageState) trims stale infractions and unbans.             *)
(*                                                                         *)
(* One ServiceJailer per instance of the fleet; all share one redis, each  *)
(* has its own ipset, its own quitChan and its own redis client.           *)
(* Every redis command is one atomic step, and so is every reading of the  *)
(* clock; the local code that follows belongs to the same step.            *)
(***************************************************************************)
EXTENDS Integers, Sequences, FiniteSets, TLC

\* ------------------------------------------------------------------ bounds
\* Number of ServiceJailer instances (each: one foreground caller, one
\* background goroutine).
NumInstances == 2
\* Number of distinct addresses.
NumAddresses == 2
\* The clock stops advancing at MaxTime ticks.
MaxTime == 3
\* Clock ticks per second: time.Now() has sub-second resolution, the stored
\* timestamps (now.Unix()) have not.
TicksPerSecond == 1
\* Total number of foreground AddInfraction calls in a behaviour.
MaxCalls == 3
\* Number of redis commands that may fail in a behaviour.
MaxFaults == 1
\* Largest values of the configuration parameters that are enumerated.
MaxMaxRetry == 2
MaxFindTime == 3
MaxBanTime == 2
\* Longest log enumerated in an initial state.
MaxLen == 3
\* Number of manageState passes an instance may start.
MaxPasses == 1
\* Number of times NewServiceJailer is run again.
MaxReruns == 1

\* ---------------------------------------------------- program constants
\* manageState's first SCAN count and the count at which doubling stops
\* (100 and 1000 in the source, scaled to the model's key space).
InitCount == 1
CountCap == 2

Instances == 1..NumInstances
Addresses == 1..NumAddresses
NoExpiry == -1
Prefix == "aws-fail2ban-"

VARIABLES
    MaxRetry, FindTime, BanTime, \* configuration (set elsewhere, never written)
    now,        \* the clock, in ticks
    redis,      \* redis lists: key -> sequence of unix timestamps (<<>>: no key)
    ttl,        \* redis expiry: key -> deadline in ticks, or NoExpiry
    ipset,      \* instance -> set of addresses in its ipset
    tasks,      \* detached goroutines of Ban/Unban not yet run, in dispatch order
    add,        \* instance -> frame of its AddInfraction call
    ms,         \* instance -> frame of its manageState pass
    loop,       \* instance -> state of the goroutine started by NewServiceJailer
    closed,     \* instance -> its redis client was closed
    startup,    \* instance -> frame of NewServiceJailer's ip set reconciliation
    faultsLeft, \* redis commands that may still fail
    hist        \* history of what was issued (not program state)

vars == <<MaxRetry, FindTime, BanTime, now, redis, ttl, ipset, tasks, add, ms,
          loop, closed, startup, faultsLeft, hist>>

config == <<MaxRetry, FindTime, BanTime>>

\* ----------------------------------------------------------------- keys
ipToKey(ip) == <<Prefix, ip>>

keyToIp(key) == IF key[1] = Prefix /\ key[2] \in Addresses THEN key[2] ELSE 0

Keys == {ipToKey(ip) : ip \in Addresses}

\* now.Unix(): whole seconds.
Unix(t) == t \div TicksPerSecond

\* time.Unix(s, 0) as a clock value.
FromUnix(s) == s * TicksPerSecond

Exists(key) == redis[key] # <<>>

\* ------------------------------------------------------- redis commands
\* RPUSH key value: the list after the append (its length is the reply).
RPush(list, value) == Append(list, value)

\* LTRIM key start -1: keep the elements from index start (0-based) on.
LTrim(list, start) == SubSeq(list, start + 1, Len(list))

\* The expiry of a key after its list became newlist: an emptied list is
\* removed with its expiry.
TtlAfter(key, newlist) == IF newlist = <<>> THEN NoExpiry ELSE ttl[key]

\* The outcomes a redis command issued by instance j can have: a closed client
\* fails every command, otherwise the command may fail while faults are left.
Outcomes(j) ==
    IF closed[j] THEN {FALSE}
    ELSE IF faultsLeft > 0 THEN {TRUE, FALSE} ELSE {TRUE}

Charge(j, ok) == IF ok \/ closed[j] THEN faultsLeft ELSE faultsLeft - 1

\* ------------------------------------------------------------- history
Bump(f, x) == [f EXCEPT ![x] = @ + 1]

\* Some entry of some list r[k] is FindTime seconds old or older at time t.
StaleNow(r, t) ==
    \E k \in Keys : \E n \in 1..Len(r[k]) :
        t - FromUnix(r[k][n]) >= FindTime * TicksPerSecond

\* ------------------------------------------------------- Ban and Unban
\* Ban(ip) / Unban(ip): start a goroutine that calls ipset.Add / ipset.Del,
\* and return nil.
Ban(j, ip) == Append(tasks, [op |-> "Add", ip |-> ip, inst |-> j])

Unban(j, ip) == Append(tasks, [op |-> "Del", ip |-> ip, inst |-> j])

RemoveAt(s, n) == SubSeq(s, 1, n - 1) \o SubSeq(s, n + 1, Len(s))

\* One of the detached goroutines runs: goroutines run in any order. ipset.Add
\* and ipset.Del may fail, which is logged and changes nothing.
RunTask ==
    \E n \in 1..Len(tasks) : \E ok \in BOOLEAN :
        LET t == tasks[n] IN
        /\ tasks' = RemoveAt(tasks, n)
        /\ ipset' = IF ~ok THEN ipset
                    ELSE IF t.op = "Add"
                         THEN [ipset EXCEPT ![t.inst] = @ \cup {t.ip}]
                         ELSE [ipset EXCEPT ![t.inst] = @ \ {t.ip}]
        /\ hist' = IF ok THEN hist
                   ELSE [hist EXCEPT !.taskErr = @ \cup {<<t.inst, t.ip>>}]
        /\ UNCHANGED <<config, now, redis, ttl, add, ms, loop, closed, startup,
                       faultsLeft>>

\* -------------------------------------------------------- AddInfraction
IdleCall == [pc |-> "idle", ip |-> 0, now |-> 0, llen |-> 0, err |-> FALSE,
             ban |-> FALSE,
             tries |-> [rpush |-> 0, ltrim |-> 0, expire |-> 0],
             failed |-> {}]

\* Entry of AddInfraction(ip): now := time.Now().
NewCall(ip) == [IdleCall EXCEPT !.pc = "rpush", !.ip = ip, !.now = Unix(now)]

\* A foreground caller of instance j reports an infraction of ip.
Request(j, ip) ==
    /\ startup[j].pc = "done"
    /\ add[j].pc = "idle"
    /\ hist.calls < MaxCalls
    /\ add' = [add EXCEPT ![j] = NewCall(ip)]
    /\ hist' = [hist EXCEPT !.calls = @ + 1]
    /\ UNCHANGED <<config, now, redis, ttl, ipset, tasks, ms, loop, closed,
                   startup, faultsLeft>>

\* A call that issues the failed command again instead of returning.
ReturnErrRetry(f, cmd) ==
    [f EXCEPT !.tries[cmd] = @ + 1, !.failed = @ \cup {cmd}]

\* The frame of a call that has returned: its locals are gone; what the call
\* did and returned is kept.
Returned(f) == [f EXCEPT !.pc = "idle", !.ip = 0, !.now = 0, !.llen = 0]

\* "if err != nil { return err }" after the command cmd failed.
ReturnErr(f, cmd) ==
    Returned([f EXCEPT !.err = TRUE, !.tries[cmd] = @ + 1,
                       !.failed = @ \cup {cmd}])

\* The command cmd succeeded and the call goes on at pc.
GoOn(f, cmd, pc) == [f EXCEPT !.pc = pc, !.tries[cmd] = @ + 1]

\* "return nil" after the last command succeeded.
ReturnNil(f, cmd) == Returned([f EXCEPT !.err = FALSE, !.tries[cmd] = @ + 1])

\* A threshold test that is off by one.
AtThresholdLate(llen) == llen > MaxRetry

\* "if llen >= MaxRetry": Ban is called.
AtThreshold(llen) == llen >= MaxRetry

\* "if llen > MaxRetry": the list is trimmed.
OverThreshold(llen) == llen > MaxRetry

\* The start index of the trim, llen-MaxRetry.
TrimStart(llen) == llen - MaxRetry

\* The statement reached after the threshold block when the append succeeded.
AfterRPush(llen) == IF OverThreshold(llen) THEN "ltrim" ELSE "expire"

\* The statement reached after a successful LTrim.
AfterLTrim == "expire"

\* RPush, and on success the threshold test with the dispatch of Ban.
AddRPush(j) ==
    LET f == add[j]
        key == ipToKey(f.ip)
    IN
    /\ f.pc = "rpush"
    /\ \E ok \in Outcomes(j) :
        /\ faultsLeft' = Charge(j, ok)
        /\ IF ~ok
           THEN /\ add' = [add EXCEPT ![j] = ReturnErr(f, "rpush")]
                /\ UNCHANGED <<redis, tasks, hist>>
           ELSE LET list == RPush(redis[key], f.now)
                    llen == Len(list)
                IN
                /\ redis' = [redis EXCEPT ![key] = list]
                /\ tasks' = IF AtThreshold(llen) THEN Ban(j, f.ip) ELSE tasks
                /\ hist' = [hist EXCEPT
                       !.pushes = Bump(@, f.ip),
                       !.banCalls = IF AtThreshold(llen) THEN Bump(@, f.ip) ELSE @,
                       !.lastCall[j][f.ip] = IF AtThreshold(llen) THEN "Add" ELSE @,
                       !.stale = @ \/ StaleNow([redis EXCEPT ![key] = list], now)]
                /\ add' = [add EXCEPT ![j] =
                       [GoOn(f, "rpush", AfterRPush(llen)) EXCEPT
                           !.llen = llen, !.ban = AtThreshold(llen)]]
    /\ UNCHANGED <<config, now, ttl, ipset, ms, loop, closed, startup>>

\* LTrim(key, llen-MaxRetry, -1), reached when llen > MaxRetry.
AddLTrim(j) ==
    LET f == add[j]
        key == ipToKey(f.ip)
    IN
    /\ f.pc = "ltrim"
    /\ \E ok \in Outcomes(j) :
        /\ faultsLeft' = Charge(j, ok)
        /\ IF ~ok
           THEN /\ add' = [add EXCEPT ![j] = ReturnErr(f, "ltrim")]
                /\ UNCHANGED <<redis, ttl>>
           ELSE LET list == LTrim(redis[key], TrimStart(f.llen)) IN
                /\ redis' = [redis EXCEPT ![key] = list]
                /\ ttl' = [ttl EXCEPT ![key] = TtlAfter(key, list)]
                /\ add' = [add EXCEPT ![j] = GoOn(f, "ltrim", AfterLTrim)]
    /\ UNCHANGED <<config, now, ipset, tasks, ms, loop, closed, startup, hist>>

\* The expiry Expire(key, 2 * BanTime seconds) sets, as a deadline in ticks.
Deadline(t) == t + 2 * BanTime * TicksPerSecond

\* Expire(key, 2 * BanTime seconds), and the return.
AddExpire(j) ==
    LET f == add[j]
        key == ipToKey(f.ip)
    IN
    /\ f.pc = "expire"
    /\ \E ok \in Outcomes(j) :
        /\ faultsLeft' = Charge(j, ok)
        /\ IF ~ok
           THEN /\ add' = [add EXCEPT ![j] = ReturnErr(f, "expire")]
                /\ UNCHANGED ttl
           ELSE /\ ttl' = IF Exists(key)
                          THEN [ttl EXCEPT ![key] = Deadline(now)]
                          ELSE ttl
                /\ add' = [add EXCEPT ![j] = ReturnNil(f, "expire")]
    /\ UNCHANGED <<config, now, redis, ipset, tasks, ms, loop, closed, startup,
                   hist>>

AddInfraction(j) == AddRPush(j) \/ AddLTrim(j) \/ AddExpire(j)

\* ---------------------------------------------------------------- clock
Expired(key, t) == ttl[key] # NoExpiry /\ ttl[key] <= t

\* The clock advances by one tick; redis no longer holds the keys whose
\* expiry has passed.
Tick ==
    /\ now < MaxTime
    /\ now' = now + 1
    /\ redis' = [k \in Keys |-> IF Expired(k, now + 1) THEN <<>> ELSE redis[k]]
    /\ ttl' = [k \in Keys |-> IF Expired(k, now + 1) THEN NoExpiry ELSE ttl[k]]
    /\ hist' = [hist EXCEPT
           !.expired = @ \cup
               {keyToIp(k) : k \in {x \in Keys : Exists(x) /\ Expired(x, now + 1)}},
           !.stale = @ \/ StaleNow([k \in Keys |-> IF Expired(k, now + 1) THEN <<>>
                                                   ELSE redis[k]], now + 1)]
    /\ UNCHANGED <<config, ipset, tasks, add, ms, loop, closed, startup,
                   faultsLeft>>

\* ---------------------------------------------------------- manageState
IdlePass == [pc |-> "idle", cursor |-> 0, count |-> InitCount, keys |-> <<>>,
             retCursor |-> 0, k |-> 0, key |-> <<>>, redisList |-> <<>>,
             limit |-> 0, i |-> 0,
             keysEvaluated |-> 0, scanIterations |-> 0, ipsDeleted |-> 0,
             ipsAffected |-> 0, infractionsDeleted |-> 0, ipsUnbanned |-> 0,
             visited |-> {}, scanFailed |-> FALSE]

\* listToInfractions: the entries that parse as an integer, as times.
listToInfractions(redisList) == SelectSeq(redisList, LAMBDA s : s \in Int)

\* bannedUntil: 0 stands for the zero time.Time{}; otherwise in ticks.
bannedUntil(infractions) ==
    IF Len(infractions) < MaxRetry THEN 0
    ELSE FromUnix(infractions[Len(infractions)] + BanTime)

\* endtime is set and time.Now() is before it.
IsBanned(infractions, t) ==
    /\ bannedUntil(infractions) # 0
    /\ t < bannedUntil(infractions)

\* A limit that forgets the ban.
LimitUnprotected(infractions, t) == Len(infractions)

Limit(infractions, t) ==
    IF IsBanned(infractions, t) THEN Len(infractions) - MaxRetry
    ELSE Len(infractions)

\* A window that is one second short.
FreshShort(infractions, i, t) ==
    t - FromUnix(infractions[i + 1]) < (FindTime - 1) * TicksPerSecond

\* time.Now().Sub(infractions[i]).Seconds() < FindTime, i 0-based.
Fresh(infractions, i, t) ==
    t - FromUnix(infractions[i + 1]) < FindTime * TicksPerSecond

\* The value of i after the loop "for i = 0; i < limit; i++ { if fresh: break }".
RECURSIVE StaleFrom(_, _, _, _)
StaleFrom(infractions, i, limit, t) ==
    IF i < limit /\ ~Fresh(infractions, i, t)
    THEN StaleFrom(infractions, i + 1, limit, t)
    ELSE i

StaleCount(infractions, limit, t) == StaleFrom(infractions, 0, limit, t)

\* An unban that is called on the way to Del only.
CallsUnbanOnDel(infractions, i) ==
    i = Len(infractions) /\ Len(infractions) >= MaxRetry

\* Whether the evaluation of a log calls unban(ip), given the loop's i.
CallsUnban(infractions, i) ==
    IF i = Len(infractions)
    THEN Len(infractions) >= MaxRetry
    ELSE /\ i > 0
         /\ Len(infractions) >= MaxRetry
         /\ Len(infractions) - i < MaxRetry

\* The keys SCAN returns for a cursor and a count: the existing keys among the
\* next count slots of the key space, in slot order.
RECURSIVE PageKeys(_, _)
PageKeys(lo, hi) ==
    IF lo > hi THEN <<>>
    ELSE (IF Exists(ipToKey(lo)) THEN <<ipToKey(lo)>> ELSE <<>>) \o PageKeys(lo + 1, hi)

ScanKeys(cursor, count) ==
    PageKeys(cursor + 1, IF cursor + count < NumAddresses THEN cursor + count
                         ELSE NumAddresses)

\* The cursor SCAN returns: 0 once the key space is exhausted.
ScanCursor(cursor, count) ==
    IF cursor + count >= NumAddresses THEN 0 ELSE cursor + count

\* The count of the next SCAN: doubled while below the cap.
NextCount(count) == IF count < CountCap THEN count * 2 ELSE count

\* The frame once the range loop over f.keys is over: the counters, then the
\* test of retCursor that ends the pass or asks for the next page.
EndOfPage(f) ==
    LET g == [f EXCEPT !.keysEvaluated = @ + Len(f.keys),
                       !.scanIterations = @ + 1] IN
    IF g.retCursor = 0
    THEN [g EXCEPT !.pc = "idle"]
    ELSE [g EXCEPT !.pc = "scan", !.cursor = g.retCursor,
                   !.count = NextCount(g.count)]

\* The frame when the body of the range loop is over for the key at index f.k
\* of the page f.keys (1-based; 0 before the first): on to the next key of the
\* page whose address parses, or to the end of the page.
RECURSIVE NextKey(_)
NextKey(f) ==
    IF f.k < Len(f.keys)
    THEN LET key == f.keys[f.k + 1]
             g == [f EXCEPT !.k = @ + 1, !.key = key, !.redisList = <<>>,
                            !.limit = 0, !.i = 0]
         IN IF keyToIp(key) = 0 THEN NextKey(g)
            ELSE [g EXCEPT !.pc = "lrange", !.visited = @ \cup {key}]
    ELSE EndOfPage([f EXCEPT !.key = <<>>, !.redisList = <<>>, !.limit = 0,
                             !.i = 0])

\* manageState is entered: the locals are initialised.
NewPass == [IdlePass EXCEPT !.pc = "scan"]

\* Scan(ctx, cursor, "aws-fail2ban-*", count). A failed command is logged and
\* leaves keys empty and retCursor zero.
ManageScan(j) ==
    LET f == ms[j] IN
    /\ f.pc = "scan"
    /\ \E ok \in Outcomes(j) :
        /\ faultsLeft' = Charge(j, ok)
        /\ LET keys == IF ok THEN ScanKeys(f.cursor, f.count) ELSE <<>>
               g == [f EXCEPT !.keys = keys, !.k = 0,
                              !.retCursor = IF ok THEN ScanCursor(f.cursor, f.count)
                                            ELSE 0,
                              !.scanFailed = @ \/ ~ok]
           IN ms' = [ms EXCEPT ![j] = NextKey(g)]
    /\ UNCHANGED <<config, now, redis, ttl, ipset, tasks, add, loop, closed,
                   startup, hist>>

\* LRange(ctx, key, 0, -1). A failed command is logged and the key skipped;
\* otherwise limit is set, from the clock as line 172 reads it.
ManageLRange(j) ==
    LET f == ms[j] IN
    /\ f.pc = "lrange"
    /\ \E ok \in Outcomes(j) :
        /\ faultsLeft' = Charge(j, ok)
        /\ ms' = [ms EXCEPT ![j] =
                    IF ok
                    THEN [f EXCEPT !.pc = "eval", !.redisList = redis[f.key],
                                   !.limit = Limit(listToInfractions(redis[f.key]),
                                                   now)]
                    ELSE NextKey(f)]
    /\ UNCHANGED <<config, now, redis, ttl, ipset, tasks, add, loop, closed,
                   startup, hist>>

\* The evaluation of the log that was read: the loop that finds i, from the
\* clock as line 178 reads it (not before the reading of line 172), and the
\* call of unban that precedes a Del or an LTrim.
ManageEval(j) ==
    LET f == ms[j]
        infractions == listToInfractions(f.redisList)
        i == StaleCount(infractions, f.limit, now)
        ip == keyToIp(f.key)
        un == CallsUnban(infractions, i)
        g == [f EXCEPT !.i = i, !.ipsUnbanned = IF un THEN @ + 1 ELSE @]
    IN
    /\ f.pc = "eval"
    /\ tasks' = IF un THEN Unban(j, ip) ELSE tasks
    /\ hist' = IF un THEN [hist EXCEPT !.unbanCalls = Bump(@, ip),
                                       !.lastCall[j][ip] = "Del"]
               ELSE hist
    /\ ms' = [ms EXCEPT ![j] =
                IF i = Len(infractions) THEN [g EXCEPT !.pc = "del"]
                ELSE IF i > 0 THEN [g EXCEPT !.pc = "ltrim"]
                ELSE NextKey(g)]
    /\ UNCHANGED <<config, now, redis, ttl, ipset, add, loop, closed, startup,
                   faultsLeft>>

\* Del(ctx, key): a failure is logged; ipsDeleted++ either way.
ManageDel(j) ==
    LET f == ms[j] IN
    /\ f.pc = "del"
    /\ \E ok \in Outcomes(j) :
        /\ faultsLeft' = Charge(j, ok)
        /\ redis' = IF ok THEN [redis EXCEPT ![f.key] = <<>>] ELSE redis
        /\ ttl' = IF ok THEN [ttl EXCEPT ![f.key] = NoExpiry] ELSE ttl
        /\ hist' = IF f.redisList = <<>>
                   THEN [hist EXCEPT !.voidDels = @ \cup {keyToIp(f.key)}]
                   ELSE [hist EXCEPT !.dels = @ \cup {keyToIp(f.key)}]
        /\ ms' = [ms EXCEPT ![j] =
                    NextKey([f EXCEPT !.ipsDeleted = @ + 1])]
    /\ UNCHANGED <<config, now, ipset, tasks, add, loop, closed, startup>>

\* LTrim(ctx, key, i, -1): a failure is logged; the counters move either way.
ManageLTrim(j) ==
    LET f == ms[j] IN
    /\ f.pc = "ltrim"
    /\ \E ok \in Outcomes(j) :
        /\ faultsLeft' = Charge(j, ok)
        /\ LET list == IF ok THEN LTrim(redis[f.key], f.i) ELSE redis[f.key] IN
            /\ redis' = [redis EXCEPT ![f.key] = list]
            /\ ttl' = [ttl EXCEPT ![f.key] = TtlAfter(f.key, list)]
        /\ hist' = [hist EXCEPT !.trims = @ \cup {keyToIp(f.key)}]
        /\ ms' = [ms EXCEPT ![j] =
                    NextKey([f EXCEPT !.ipsAffected = @ + 1,
                                      !.infractionsDeleted = @ + f.i])]
    /\ UNCHANGED <<config, now, ipset, tasks, add, loop, closed, startup>>

manageState(j) ==
    ManageScan(j) \/ ManageLRange(j) \/ ManageEval(j) \/ ManageDel(j) \/ ManageLTrim(j)

\* ----------------------------------------------------- NewServiceJailer
\* The reconciliation of the ip set with redis (lines 55-72), then the start
\* of the goroutine.
NotStarted == [pc |-> "get", ips |-> <<>>, n |-> 0, i |-> 0]

Constructed == [pc |-> "done", ips |-> <<>>, n |-> 0, i |-> 0]

\* The members of an ip set as ipset.Get() lists them.
RECURSIVE Members(_, _)
Members(set, ip) ==
    IF ip > NumAddresses THEN <<>>
    ELSE (IF ip \in set THEN <<ip>> ELSE <<>>) \o Members(set, ip + 1)

\* The frame at the next ip of "for _, ip := range ips", or after the loop.
NextIp(f) ==
    IF f.n < Len(f.ips) THEN [f EXCEPT !.pc = "llen", !.n = @ + 1, !.i = 0]
    ELSE [f EXCEPT !.pc = "done", !.i = 0]

\* The goroutine of instance j once NewServiceJailer's frame is f.
Started(f, l) == IF f.pc = "done" THEN [l EXCEPT !.pc = "select"] ELSE l

\* ipset.Get(): an error ends the construction.
StartupGet(j) ==
    LET f == startup[j] IN
    /\ f.pc = "get"
    /\ \E ok \in BOOLEAN :
        LET g == IF ok THEN NextIp([f EXCEPT !.ips = Members(ipset[j], 1)])
                 ELSE [f EXCEPT !.pc = "failed"]
        IN /\ startup' = [startup EXCEPT ![j] = g]
           /\ loop' = [loop EXCEPT ![j] = Started(g, @)]
    /\ UNCHANGED <<config, now, redis, ttl, ipset, tasks, add, ms, closed,
                   faultsLeft, hist>>

\* A loop condition that is off by one.
BelowOrAt(i) == i <= MaxRetry

\* "i < MaxRetry", the condition of the loop around AddInfraction.
Below(i) == i < MaxRetry

\* LLen(key): an error is logged and the ip skipped; otherwise i := llen.
StartupLLen(j) ==
    LET f == startup[j]
        ip == f.ips[f.n]
    IN
    /\ f.pc = "llen"
    /\ \E ok \in Outcomes(j) :
        /\ faultsLeft' = Charge(j, ok)
        /\ LET llen == Len(redis[ipToKey(ip)])
               g == IF ~ok THEN NextIp(f)
                    ELSE IF Below(llen) THEN [f EXCEPT !.pc = "call", !.i = llen]
                    ELSE NextIp(f)
           IN /\ startup' = [startup EXCEPT ![j] = g]
              /\ loop' = [loop EXCEPT ![j] = Started(g, @)]
              /\ hist' = IF ok THEN [hist EXCEPT !.read = @ \cup {<<j, ip>>}]
                         ELSE hist
    /\ UNCHANGED <<config, now, redis, ttl, ipset, tasks, add, ms, closed>>

\* jailer.AddInfraction(ip) is entered.
StartupCall(j) ==
    LET f == startup[j] IN
    /\ f.pc = "call"
    /\ add[j].pc = "idle"
    /\ add' = [add EXCEPT ![j] = NewCall(f.ips[f.n])]
    /\ startup' = [startup EXCEPT ![j].pc = "wait"]
    /\ UNCHANGED <<config, now, redis, ttl, ipset, tasks, ms, loop, closed,
                   faultsLeft, hist>>

\* AddInfraction has returned (an error is logged): i++ and the loop's test.
StartupReturn(j) ==
    LET f == startup[j] IN
    /\ f.pc = "wait"
    /\ add[j].pc = "idle"
    /\ LET g == IF Below(f.i + 1) THEN [f EXCEPT !.pc = "call", !.i = @ + 1]
                ELSE NextIp(f)
       IN /\ startup' = [startup EXCEPT ![j] = g]
          /\ loop' = [loop EXCEPT ![j] = Started(g, @)]
    /\ UNCHANGED <<config, now, redis, ttl, ipset, tasks, add, ms, closed,
                   faultsLeft, hist>>

NewServiceJailer(j) ==
    StartupGet(j) \/ StartupLLen(j) \/ StartupCall(j) \/ StartupReturn(j)

\* NewServiceJailer is called once more for the ip set of instance j, after
\* its previous run has returned.
Rerun(j) ==
    /\ startup[j].pc = "done"
    /\ hist.runs < MaxReruns
    /\ startup' = [startup EXCEPT ![j] = [pc |-> "get", ips |-> <<>>, n |-> 0,
                                          i |-> 0]]
    /\ loop' = [loop EXCEPT ![j] = [pc |-> "off", quit |-> FALSE,
                                    close |-> "idle"]]
    /\ hist' = [hist EXCEPT !.runs = @ + 1,
                            !.after = [redis |-> redis, pushes |-> hist.pushes]]
    /\ UNCHANGED <<config, now, redis, ttl, ipset, tasks, add, ms, closed,
                   faultsLeft>>

\* ------------------------------------------------- the goroutine and Close
NoLoop == [pc |-> "off", quit |-> FALSE, close |-> "idle"]

Selecting == [pc |-> "select", quit |-> FALSE, close |-> "idle"]

\* The goroutine of instance j waits in its select.
InSelect(j) == loop[j].pc = "select" /\ ms[j].pc = "idle"

\* Where the goroutine is after "case <-jailer.quitChan: break": the break
\* leaves the select, and the for loop enters the select again.
AfterQuit == "select"

\* case <-time.After(period): manageState is entered.
LoopTimer(j) ==
    /\ InSelect(j)
    /\ hist.passes[j] < MaxPasses
    /\ ms' = [ms EXCEPT ![j] = NewPass]
    /\ hist' = [hist EXCEPT !.passes = Bump(@, j),
                            !.late = IF loop[j].quit THEN @ \cup {j} ELSE @]
    /\ UNCHANGED <<config, now, redis, ttl, ipset, tasks, add, loop, closed,
                   startup, faultsLeft>>

\* Close: "j.quitChan <- true" meets "case <-jailer.quitChan" of the select
\* (the channel is unbuffered: the send waits for the goroutine to receive).
CloseSend(j) ==
    /\ loop[j].close = "idle"
    /\ InSelect(j)
    /\ loop' = [loop EXCEPT ![j].close = "sent", ![j].quit = TRUE,
                            ![j].pc = AfterQuit]
    /\ UNCHANGED <<config, now, redis, ttl, ipset, tasks, add, ms, closed,
                   startup, faultsLeft, hist>>

\* Close: j.redisClient.Close(), and the return.
CloseRedis(j) ==
    /\ loop[j].close = "sent"
    /\ closed' = [closed EXCEPT ![j] = TRUE]
    /\ loop' = [loop EXCEPT ![j].close = "done"]
    /\ UNCHANGED <<config, now, redis, ttl, ipset, tasks, add, ms, startup,
                   faultsLeft, hist>>

Close(j) == CloseSend(j) \/ CloseRedis(j)

\* ------------------------------------------------------- initial states
Configs(retries, findtimes, bantimes) ==
    /\ MaxRetry \in retries
    /\ FindTime \in findtimes
    /\ BanTime \in bantimes

NoHistory == [calls |-> 0, passes |-> [j \in Instances |-> 0],
              pushes |-> [a \in Addresses |-> 0],
              banCalls |-> [a \in Addresses |-> 0],
              unbanCalls |-> [a \in Addresses |-> 0],
              expired |-> {}, dels |-> {}, voidDels |-> {}, trims |-> {},
              late |-> {}, read |-> {}, stale |-> FALSE, runs |-> 0,
              after |-> <<>>,
              lastCall |-> [j \in Instances |-> [a \in Addresses |-> "none"]],
              taskErr |-> {}]

\* No call is in progress, no goroutine of Ban or Unban is pending, no client
\* is closed.
Quiet ==
    /\ tasks = <<>>
    /\ add = [j \in Instances |-> IdleCall]
    /\ ms = [j \in Instances |-> IdlePass]
    /\ closed = [j \in Instances |-> FALSE]

\* Every instance constructed against an empty ip set, redis empty.
Fresh0 ==
    /\ now = 0
    /\ redis = [k \in Keys |-> <<>>]
    /\ ttl = [k \in Keys |-> NoExpiry]
    /\ ipset = [j \in Instances |-> {}]
    /\ Quiet
    /\ loop = [j \in Instances |-> Selecting]
    /\ startup = [j \in Instances |-> Constructed]
    /\ hist = NoHistory

\* ---------------------------------------------------------------------
\* SpecSeq: one caller reports infractions one call after the other; no
\* redis command fails and manageState does not run.
InitSeq ==
    /\ Configs(1..MaxMaxRetry, {1}, 1..MaxBanTime)
    /\ Fresh0
    /\ faultsLeft = 0

NextSeq ==
    \/ \E ip \in Addresses : Request(1, ip)
    \/ AddInfraction(1)
    \/ Tick

SpecSeq == InitSeq /\ [][NextSeq]_vars

\* A call of AddInfraction for address a is in progress.
InCall(a) == \E j \in Instances : add[j].pc # "idle" /\ add[j].ip = a

\* C1: in a sequential series of AddInfraction calls for an address, from an
\* empty log, with no failed command, no manageState pass and no expiry of
\* the key, Ban has been called iff MaxRetry infractions were appended (so the
\* call that appends entry number MaxRetry is the first to call it), and
\* between calls the log holds at most MaxRetry entries.
C1_BanAtMaxRetry ==
    \A a \in Addresses :
        a \notin hist.expired =>
            /\ (hist.banCalls[a] > 0) <=> (hist.pushes[a] >= MaxRetry)
            /\ ~InCall(a) => Len(redis[ipToKey(a)]) <= MaxRetry

\* The call after the one that reached MaxRetry has returned: Ban was called
\* by both, and the log was trimmed back to MaxRetry entries.
C1_Witness ==
    \E a \in Addresses :
        /\ a \notin hist.expired
        /\ ~InCall(a)
        /\ hist.pushes[a] = MaxRetry + 1
        /\ hist.banCalls[a] = 2
        /\ Len(redis[ipToKey(a)]) = MaxRetry

\* The step in which the RPush of instance j's call succeeds.
AppendStep(j) == add[j].pc = "rpush" /\ add'[j].pc \in {"ltrim", "expire"}

\* C16: a call of AddInfraction for an address whose list already holds
\* MaxRetry entries or more (Ban was called when it got there) does not call
\* Ban again.
C16_BanOncePerCrossing ==
    [][\A j \in Instances :
        (AppendStep(j) /\ Len(redis[ipToKey(add[j].ip)]) >= MaxRetry) =>
            tasks' = tasks]_vars

\* ---------------------------------------------------------------------
\* SpecAdd: the foreground callers of all instances report infractions
\* concurrently, and redis commands may fail; manageState does not run.
InitAdd ==
    /\ Configs(1..MaxMaxRetry, {1}, 1..MaxBanTime)
    /\ Fresh0
    /\ faultsLeft = MaxFaults

NextAdd ==
    \/ \E j \in Instances, ip \in Addresses : Request(j, ip)
    \/ \E j \in Instances : AddInfraction(j)
    \/ Tick

SpecAdd == InitAdd /\ [][NextAdd]_vars

\* C5: a call of AddInfraction that has returned, whose append succeeded and
\* whose Expire did not fail, has issued the Expire that sets the key's
\* time-to-live to 2 * BanTime.
C5_ExpireOnEveryPath ==
    \A j \in Instances :
        LET f == add[j] IN
        (/\ f.pc = "idle"
         /\ f.tries["rpush"] = 1
         /\ "rpush" \notin f.failed
         /\ "expire" \notin f.failed) => f.tries["expire"] = 1

\* What AddInfraction's frame shows of C9: at most one attempt of each
\* command, an error returned when the append or the trim failed, and after a
\* failed append neither Ban nor a further command.
C9_Frame(f) ==
    /\ \A cmd \in {"rpush", "ltrim", "expire"} : f.tries[cmd] <= 1
    /\ f.failed \cap {"rpush", "ltrim"} # {} => f.pc = "idle" /\ f.err
    /\ "rpush" \in f.failed =>
           ~f.ban /\ f.tries["ltrim"] = 0 /\ f.tries["expire"] = 0

\* The step in which the append of instance j's call fails.
C9_AppendFails(j) ==
    /\ "rpush" \notin add[j].failed
    /\ "rpush" \in add'[j].failed

\* C9: AddInfraction returns an error whenever its append or its trim fails,
\* issues each command at most once, and a failed append leaves the lists,
\* the expiries, the dispatched enforcement calls and the ip sets unchanged.
C9_ErrorsReturnedNoRetry ==
    /\ [](\A j \in Instances : C9_Frame(add[j]))
    /\ [][\A j \in Instances :
            C9_AppendFails(j) => UNCHANGED <<redis, ttl, tasks, ipset>>]_vars

\* A call has returned the error of a failed trim, and another the error of
\* a failed append.
C9_Witness ==
    \E j \in Instances :
        /\ add[j].pc = "idle"
        /\ add[j].err
        /\ add[j].failed = {"ltrim"}
        /\ add[j].ban

\* No redis command has failed.
NoFault == faultsLeft = MaxFaults

\* C14: once all concurrent AddInfraction calls have returned (no command
\* failed, no key expired), a list to which MaxRetry entries or more were
\* appended holds exactly MaxRetry entries.
C14_TrimKeepsMaxRetry ==
    \A a \in Addresses :
        (/\ \A j \in Instances : add[j].pc = "idle"
         /\ NoFault
         /\ a \notin hist.expired
         /\ hist.pushes[a] >= MaxRetry) => Len(redis[ipToKey(a)]) = MaxRetry

\* C15: the timestamps of every list are in non-decreasing order in every
\* reachable state, also when calls of AddInfraction overlap.
C15_LogsOrdered ==
    \A k \in Keys :
        \A m \in 1..Len(redis[k]) : \A n \in m..Len(redis[k]) :
            redis[k][m] <= redis[k][n]

\* ---------------------------------------------------------------------
\* The lists redis may hold at time t: timestamps up to t, in any order (the
\* order of the appends is not the order of the timestamps when calls overlap).
Logs(t, maxlen) == UNION {[1..n -> 0..Unix(t)] : n \in 0..maxlen}

RECURSIVE Latest(_)
Latest(list) ==
    IF Len(list) = 1 THEN list[1]
    ELSE LET m == Latest(Tail(list)) IN IF list[1] > m THEN list[1] ELSE m

\* The expiry of a list at time t: the one set when its latest entry was
\* appended, or none when that one would have passed (an Expire that failed).
ExpiryOf(list, t) ==
    IF list = <<>> THEN NoExpiry
    ELSE LET d == Deadline(FromUnix(Latest(list))) IN
         IF d > t THEN d ELSE NoExpiry

\* Redis at a time in times: address 1 with any list of up to MaxLen entries,
\* the other addresses with at most one entry.
Stored(times) ==
    /\ now \in times
    /\ \E first \in Logs(now, MaxLen), rest \in [Keys -> Logs(now, 1)] :
           redis = [k \in Keys |-> IF keyToIp(k) = 1 THEN first ELSE rest[k]]
    /\ ttl = [k \in Keys |-> ExpiryOf(redis[k], now)]

\* The service at some time of its life: every instance is constructed, its
\* goroutine in its select.
Running ==
    /\ Stored(0..MaxTime)
    /\ ipset = [j \in Instances |-> {}]
    /\ Quiet
    /\ loop = [j \in Instances |-> Selecting]
    /\ startup = [j \in Instances |-> Constructed]
    /\ hist = [NoHistory EXCEPT !.stale = StaleNow(redis, now)]

\* SpecScan: the goroutine of one instance runs manageState alone while time
\* passes; redis commands may fail.
InitScan ==
    /\ Configs(1..MaxMaxRetry, 1..MaxFindTime, 1..MaxBanTime)
    /\ Running
    /\ faultsLeft = MaxFaults

NextScan ==
    \/ LoopTimer(1)
    \/ manageState(1)
    \/ Tick

SpecScan == InitScan /\ [][NextScan]_vars

\* The step in which instance j evaluates the list it read.
EvalStep(j) == ms[j].pc = "eval" /\ ms'[j] # ms[j]

\* The list evaluated holds MaxRetry entries or more, none later than its
\* last, and the time was at or after the last entry + BanTime already when
\* limit was set.
C2_BanLapsed(j) ==
    LET inf == listToInfractions(ms[j].redisList) IN
    /\ Len(inf) >= MaxRetry
    /\ \A n \in 1..Len(inf) : inf[n] <= inf[Len(inf)]
    /\ ms[j].limit = Len(inf)
    /\ now >= FromUnix(inf[Len(inf)] + BanTime)

\* The evaluation calls Unban for the address and goes on to Del.
C2_UnbanAndDel(j) ==
    /\ tasks' = Unban(j, keyToIp(ms[j].key))
    /\ ms'[j].pc = "del"

\* The step in which the Del of instance j's pass is issued and succeeds.
DelStep(j) ==
    /\ ms[j].pc = "del"
    /\ ms'[j] # ms[j]
    /\ faultsLeft' = faultsLeft
    /\ ~closed[j]

\* C2: for all positive MaxRetry, FindTime and BanTime, a pass that evaluates
\* at or after last entry + BanTime a list of MaxRetry entries or more, to
\* which nothing was appended since, calls Unban and goes on to delete the
\* key, and its Del, when the command succeeds, removes the key.
C2_UnbanAtBannedUntil ==
    [][\A j \in Instances :
        /\ (EvalStep(j) /\ C2_BanLapsed(j)) => C2_UnbanAndDel(j)
        /\ DelStep(j) => redis'[ms[j].key] = <<>>]_vars

\* No pass has issued a command or an Unban.
NothingIssued ==
    /\ hist.dels = {} /\ hist.voidDels = {} /\ hist.trims = {}
    /\ \A a \in Addresses : hist.unbanCalls[a] = 0
    /\ \A j \in Instances : ms[j].pc \notin {"del", "ltrim"}

\* C3 as claimed: while no entry of any list has reached the age FindTime, a
\* pass issues no LTrim, no Del and no Unban, and changes no list.
C3_FreshUntouched == ~hist.stale => NothingIssued

\* The list instance j evaluates is not empty and each of its entries is
\* younger than FindTime.
C3_ReadFresh(j) ==
    LET inf == listToInfractions(ms[j].redisList) IN
    /\ inf # <<>>
    /\ \A n \in 1..Len(inf) : now - FromUnix(inf[n]) < FindTime * TicksPerSecond

\* C3 as amended: a pass that evaluates a list that is not empty and whose
\* entries are all younger than FindTime issues no LTrim, no Del and no Unban
\* for that key, whether the address is banned or not, and goes on to the
\* next key. (A key that expired after SCAN returned it is read as empty, and
\* a Del is issued for it.)
C3_FreshUntouchedAmended ==
    [][\A j \in Instances :
        (EvalStep(j) /\ C3_ReadFresh(j)) =>
            /\ ms'[j].pc \notin {"del", "ltrim"}
            /\ ms'[j].ipsUnbanned = ms[j].ipsUnbanned
            /\ UNCHANGED <<redis, ttl, tasks, ipset>>]_vars

\* A pass has ended that visited a banned address (MaxRetry entries or more)
\* while no entry of any list was stale.
C3_Witness ==
    /\ ~hist.stale
    /\ ms[1].pc = "idle"
    /\ ms[1].scanIterations > 0
    /\ \E k \in ms[1].visited : Len(redis[k]) >= MaxRetry /\ Len(redis[k]) > 1

\* C10: a pass that has ended has evaluated every key of redis (no key is
\* created during the pass), whichever single command failed.
C10_EveryKeyEvaluated ==
    \A j \in Instances :
        (ms[j].pc = "idle" /\ ms[j].scanIterations > 0) =>
            \A k \in Keys : Exists(k) => k \in ms[j].visited

\* The step in which the pass of instance j ends.
PassEnds(j) == ms[j].pc # "idle" /\ ms'[j].pc = "idle"

\* C20: a pass ends exactly when a Scan has returned a page with cursor 0:
\* the Scan before the end of a pass succeeded and returned cursor 0, a page
\* returned with another cursor is followed by a further Scan from that
\* cursor, and the keys of every page returned were evaluated.
C20_EndsAtCursorZero ==
    [][\A j \in Instances :
        /\ PassEnds(j) =>
               /\ ~ms'[j].scanFailed
               /\ ms'[j].retCursor = 0
               /\ ms'[j].keysEvaluated = Cardinality(ms'[j].visited)
        /\ (ms[j].pc # "scan" /\ ms'[j].pc = "scan" /\ ms[j].pc # "idle") =>
               ms'[j].cursor = ms'[j].retCursor /\ ms'[j].retCursor # 0]_vars

\* The timestamps of list are in non-decreasing order.
Sorted(list) ==
    \A m \in 1..Len(list) : \A n \in m..Len(list) : list[m] <= list[n]

\* Entry n of list is FindTime seconds old or older at time t.
Stale(list, n, t) == t - FromUnix(list[n]) >= FindTime * TicksPerSecond

\* The number of entries kept from removal at time t: the most recent MaxRetry
\* while the address is banned, none otherwise.
Protected(list, t) ==
    IF Len(list) >= MaxRetry /\ t < FromUnix(list[Len(list)] + BanTime)
    THEN MaxRetry ELSE 0

\* The length of the longest prefix of list, of at most cap entries, whose
\* entries are all stale at time t.
StalePrefix(list, cap, t) ==
    LET S == {n \in 0..cap : \A m \in 1..n : Stale(list, m, t)} IN
    CHOOSE n \in S : \A m \in S : m <= n

\* The step in which the LRange of instance j's pass succeeds.
ReadStep(j) == ms[j].pc = "lrange" /\ ms'[j].pc = "eval"

\* The LTrim or Del of instance j's pass succeeds on the list as it was read.
RemovalStep(j) ==
    /\ ms[j].pc \in {"ltrim", "del"}
    /\ ms'[j] # ms[j]
    /\ faultsLeft' = faultsLeft
    /\ redis[ms[j].key] = ms[j].redisList

\* C11: a pass running alone on a key whose list is in non-decreasing order
\* removes exactly the longest prefix of entries FindTime old or older, the
\* most recent MaxRetry entries set apart while the address is banned (by the
\* clock as read when limit is set); the key is deleted iff every entry is
\* removed, and otherwise the rest of the list is kept as it is. The removal
\* is that of the LTrim or Del when the command succeeds.
C11_RemovesStalePrefix ==
    [][\A j \in Instances :
        LET list == ms[j].redisList
            n == StalePrefix(list, ms[j].limit, now)
        IN
        /\ (ReadStep(j) /\ Sorted(redis[ms[j].key])) =>
               ms'[j].limit = Len(redis[ms[j].key])
                                - Protected(redis[ms[j].key], now)
        /\ (EvalStep(j) /\ Sorted(list) /\ list # <<>>) =>
               /\ (n = Len(list)) <=> (ms'[j].pc = "del")
               /\ (0 < n /\ n < Len(list)) <=> (ms'[j].pc = "ltrim")
               /\ ms'[j].pc \in {"del", "ltrim"} => ms'[j].i = n
               /\ UNCHANGED redis
        /\ (RemovalStep(j) /\ Sorted(list)) =>
               /\ redis'[ms[j].key] = SubSeq(list, ms[j].i + 1, Len(list))
               /\ \A k \in Keys \ {ms[j].key} : redis'[k] = redis[k]]_vars

\* A pass has trimmed a stale prefix off an ordered list of a banned address
\* and left its most recent MaxRetry entries, the first of them FindTime old
\* itself.
C11_Witness ==
    \E k \in Keys :
        /\ ms[1].pc = "idle"
        /\ ms[1].ipsAffected = 1
        /\ ms[1].infractionsDeleted > 0
        /\ faultsLeft = MaxFaults
        /\ MaxRetry > 1
        /\ Len(redis[k]) = MaxRetry
        /\ Sorted(redis[k])
        /\ Stale(redis[k], 1, now)

\* The number of entries the command that the evaluation of instance j goes on
\* to will remove from the list that was read.
ToRemove(j) ==
    IF ms'[j].pc = "del" THEN Len(ms[j].redisList)
    ELSE IF ms'[j].pc = "ltrim" THEN ms'[j].i
    ELSE 0

\* C13: a pass running alone calls Unban for an address iff the list held
\* MaxRetry entries or more when evaluated and holds fewer after the pass's
\* LTrim or Del (no entry after a Del); Unban is called before that command is
\* issued, and the command, when it succeeds, leaves that many entries.
C13_UnbanIffDropsBelow ==
    [][\A j \in Instances :
        LET list == ms[j].redisList
            ip == keyToIp(ms[j].key)
        IN
        /\ EvalStep(j) =>
               /\ tasks' \in {tasks, Unban(j, ip)}
               /\ (tasks' = Unban(j, ip)) <=>
                      /\ Len(list) >= MaxRetry
                      /\ Len(list) - ToRemove(j) < MaxRetry
               /\ UNCHANGED redis
        /\ RemovalStep(j) =>
               /\ tasks' = tasks
               /\ Len(redis'[ms[j].key]) =
                      Len(list) - (IF ms[j].pc = "del" THEN Len(list) ELSE ms[j].i)]_vars

\* A pass has ended that called Unban once and trimmed the list of that
\* address, of MaxRetry entries or more, to fewer than MaxRetry entries.
C13_Witness ==
    \E k \in Keys :
        /\ ms[1].pc = "idle"
        /\ ms[1].ipsUnbanned = 1
        /\ ms[1].ipsAffected = 1
        /\ ms[1].ipsDeleted = 0
        /\ faultsLeft = MaxFaults
        /\ tasks = <<[op |-> "Del", ip |-> keyToIp(k), inst |-> 1]>>
        /\ redis[k] # <<>>
        /\ Len(redis[k]) < MaxRetry

\* ---------------------------------------------------------------------
\* SpecConc: the goroutines of all instances run manageState at the same
\* time, on the same redis; no command fails.
InitConc ==
    /\ Configs(1..MaxMaxRetry, {1}, 1..MaxBanTime)
    /\ Running
    /\ faultsLeft = 0

NextConc ==
    \/ \E j \in Instances : LoopTimer(j)
    \/ \E j \in Instances : manageState(j)
    \/ Tick

SpecConc == InitConc /\ [][NextConc]_vars

\* The entries of list that are younger than FindTime at time t.
FreshEntries(list, t) ==
    {n \in 1..Len(list) : t - FromUnix(list[n]) < FindTime * TicksPerSecond}

\* The step in which the LTrim of instance j's pass is issued.
TrimStep(j) == ms[j].pc = "ltrim" /\ ms'[j] # ms[j]

\* C8: when passes of several instances evaluate the same key at the same
\* time, no entry younger than FindTime is removed: an LTrim removes no such
\* entry from the list as it is when the command arrives, and neither does a
\* Del.
C8_NoFreshEntryRemoved ==
    [][\A j \in Instances :
        /\ TrimStep(j) =>
               \A n \in FreshEntries(redis[ms[j].key], now) : n > ms[j].i
        /\ (ms[j].pc = "del" /\ ms'[j] # ms[j]) =>
               FreshEntries(redis[ms[j].key], now) = {}]_vars

\* The pass of instance j found the address of its key banned when it set
\* limit: MaxRetry entries or more, and the clock before last entry + BanTime.
FoundBanned(j) ==
    LET inf == listToInfractions(ms[j].redisList) IN
    /\ Len(inf) >= MaxRetry
    /\ ms[j].limit = Len(inf) - MaxRetry

\* The last n entries of list.
Recent(list, n) == SubSeq(list, Len(list) - n + 1, Len(list))

\* C12: a pass calls no Unban for an address it found banned, and its LTrim
\* or Del removes none of the most recent MaxRetry entries of that address's
\* list, whatever the timestamps and their order.
C12_BannedKeepsRecent ==
    [][\A j \in Instances :
        LET key == ms[j].key IN
        /\ (EvalStep(j) /\ FoundBanned(j)) =>
               /\ tasks' = tasks
               /\ ms'[j].pc # "del"
        /\ (/\ ms[j].pc \in {"ltrim", "del"}
            /\ ms'[j] # ms[j]
            /\ FoundBanned(j)
            /\ Len(redis[key]) >= MaxRetry) =>
               /\ Len(redis'[key]) >= MaxRetry
               /\ Recent(redis'[key], MaxRetry) = Recent(redis[key], MaxRetry)]_vars

\* ---------------------------------------------------------------------
\* SpecServe: one instance in service from an empty redis: its caller reports
\* infractions, its goroutine runs manageState, the goroutines of Ban and
\* Unban run, time passes; no redis command fails.
InitServe ==
    /\ Configs(1..MaxMaxRetry, {1}, 1..MaxBanTime)
    /\ Fresh0
    /\ faultsLeft = 0

NextServe ==
    \/ \E ip \in Addresses : Request(1, ip)
    \/ AddInfraction(1)
    \/ LoopTimer(1)
    \/ manageState(1)
    \/ RunTask
    \/ Tick

SpecServe == InitServe /\ [][NextServe]_vars

\* The step in which the call of instance j dispatches Ban.
BanStep(j) == AppendStep(j) /\ add'[j].ban

\* C17: AddInfraction calls Ban only if the MaxRetry most recent entries of
\* the list, the new one included, all lie within FindTime seconds of the
\* time of the call (the timestamp it appends), whether a pass ran between
\* the infractions or not.
C17_BanOnlyWithinFindTime ==
    [][\A j \in Instances :
        BanStep(j) =>
            LET list == redis'[ipToKey(add[j].ip)] IN
            \A n \in 1..Len(list) :
                n > Len(list) - MaxRetry => add[j].now - list[n] <= FindTime]_vars

\* C18: when the key of a list of MaxRetry entries or more ceases to exist,
\* by a Del or by its expiry, Unban has been called for its address.
C18_UnbanBeforeKeyGone ==
    [][\A a \in Addresses :
        (Len(redis[ipToKey(a)]) >= MaxRetry /\ redis'[ipToKey(a)] = <<>>) =>
            hist'.unbanCalls[a] > 0]_vars

\* A goroutine of Ban or Unban of instance j for address a has yet to run.
Pending(j, a) ==
    \E n \in 1..Len(tasks) : tasks[n].inst = j /\ tasks[n].ip = a

\* C19: once the goroutines of the Ban and Unban calls of an instance for an
\* address have all run without error, the address is in the ip set iff the
\* call dispatched last was Ban.
C19_LastCallWins ==
    \A j \in Instances : \A a \in Addresses :
        (/\ hist.lastCall[j][a] # "none"
         /\ ~Pending(j, a)
         /\ <<j, a>> \notin hist.taskErr) =>
            (a \in ipset[j] <=> hist.lastCall[j][a] = "Add")

\* ---------------------------------------------------------------------
\* SpecLife: the goroutine of one instance, its manageState passes, and Close.
InitLife ==
    /\ Configs({1}, {1}, {1})
    /\ Running
    /\ faultsLeft = 0

NextLife ==
    \/ LoopTimer(1)
    \/ manageState(1)
    \/ Close(1)
    \/ Tick

SpecLife == InitLife /\ [][NextLife]_vars

\* C4: once the goroutine has received from quitChan, it has left its loop
\* and manageState is not entered again.
C4_LoopStopsAfterQuit ==
    \A j \in Instances :
        /\ loop[j].quit => loop[j].pc = "exit"
        /\ j \notin hist.late

\* C4, its last part alone: no pass is started after the goroutine received
\* from quitChan.
C4_NoPassAfterQuit == hist.late = {}

\* ---------------------------------------------------------------------
\* The state in which NewServiceJailer is called: the ip sets hold one of
\* memberships (the same in every instance), redis holds lists of the past.
Starting(memberships) ==
    /\ Stored({0})
    /\ \E members \in memberships : ipset = [j \in Instances |-> members]
    /\ Quiet
    /\ loop = [j \in Instances |-> NoLoop]
    /\ startup = [j \in Instances |-> NotStarted]
    /\ hist = [NoHistory EXCEPT !.stale = StaleNow(redis, now)]

\* SpecStartup: all instances run NewServiceJailer at the same time, address 1
\* in their ip sets or not; redis commands may fail.
InitStartup ==
    /\ Configs(1..MaxMaxRetry, {1}, 1..MaxBanTime)
    /\ Starting(SUBSET {1})
    /\ faultsLeft = MaxFaults

NextStartup ==
    \/ \E j \in Instances : NewServiceJailer(j)
    \/ \E j \in Instances : AddInfraction(j)
    \/ Tick

SpecStartup == InitStartup /\ [][NextStartup]_vars

\* C6: when the reconciliation of an instance completes, every member of its
\* ip set whose LLen succeeded (and whose key did not expire meanwhile) has a
\* list of MaxRetry entries or more.
C6_MembersReachMaxRetry ==
    [][\A j \in Instances :
        (startup[j].pc # "done" /\ startup'[j].pc = "done") =>
            \A a \in Addresses :
                (<<j, a>> \in hist.read /\ a \notin hist.expired) =>
                    Len(redis'[ipToKey(a)]) >= MaxRetry]_vars

\* ---------------------------------------------------------------------
\* SpecRerun: one instance runs NewServiceJailer, and runs it again when it
\* has returned; nothing else uses redis and no command fails. The goroutines
\* of Ban run. AddInfraction's LTrim is not among the steps: no call gets to
\* it here, which C7_RerunIdempotent states (no call is at "ltrim").
InitRerun ==
    /\ Configs(1..MaxMaxRetry, {1}, 1..MaxBanTime)
    /\ Starting(SUBSET Addresses)
    /\ faultsLeft = 0

NextRerun ==
    \/ NewServiceJailer(1)
    \/ AddRPush(1)
    \/ AddExpire(1)
    \/ Rerun(1)
    \/ RunTask
    \/ Tick

SpecRerun == InitRerun /\ [][NextRerun]_vars

\* C7: run twice in succession, the reconciliation never leaves a list it
\* appended to longer than MaxRetry, and the second run appends nothing: every
\* list is as the first run left it (lists whose key expired apart).
C7_RerunIdempotent ==
    /\ add[1].pc # "ltrim"
    /\ \A a \in Addresses :
           (hist.pushes[a] > 0 /\ a \notin hist.expired) =>
               Len(redis[ipToKey(a)]) <= MaxRetry
    /\ hist.runs > 0 =>
           \A a \in Addresses :
               a \notin hist.expired =>
                   /\ hist.pushes[a] = hist.after.pushes[a]
                   /\ redis[ipToKey(a)] = hist.after.redis[ipToKey(a)]

\* The second run has returned, after a first run that appended to the list
\* of a member until it held MaxRetry entries.
C7_Witness ==
    /\ hist.runs = 1
    /\ startup[1].pc = "done"
    /\ \E a \in ipset[1] :
           /\ hist.pushes[a] > 0
           /\ a \notin hist.expired
           /\ Len(redis[ipToKey(a)]) = MaxRetry

====
